---- MODULE Spec2Model ----
(***************************************************************************)
(* Model of two plugins of the hornet node.                                *)
(*                                                                         *)
(*  - plugins/database/plugin.go: RunGarbageCollection and                 *)
(*    RunFullGarbageCollection, serialised by garbageCollectionLock.       *)
(*  - plugins/tangle (src/unnamed/part_000): processValidMilestone, run by *)
(*    the single worker of processValidMilestoneWorkerPool.                *)
(*                                                                         *)
(* The two plugins share no state.  DatabaseSpec and TangleSpec are the    *)
(* state machines of each plugin; Spec is their interleaving.              *)
(***************************************************************************)
EXTENDS Integers, Sequences, FiniteSets

\* ---------------------------------------------------------------- bounds
\* goroutines that call RunGarbageCollection / RunFullGarbageCollection
NumCallers == 2
\* calls to either entry point in one run of the model
MaxCalls == 2
\* value log files the engine can rewrite
MaxRewrites == 2
\* highest milestone index a marker carries
MaxIndex == 3
\* markers delivered to the tangle plugin in one run of the model
MaxMarkers == 2

\* workers of processValidMilestoneWorkerPool with two workers
TwoWorkers == 1 + 1

\* (&async.WorkerPool{}).Tune(1)
processValidMilestoneWorkers == 1

\* a solidifier pool with two workers
TwoSolidifierWorkers == 1 + 1

\* milestoneSolidifierWorkerPool runs one task at a time
milestoneSolidifierWorkers == 1

Callers == 1..NumCallers
Workers == 1..processValidMilestoneWorkers
SolidifierWorkers == 1..milestoneSolidifierWorkers
Indices == 1..MaxIndex
NoOwner == 0

\* results of database.CleanupHornetBadgerInstance
ErrNil == "nil"
ErrNoRewrite == "ErrNoRewrite"
ErrOther == "ErrOther"

VARIABLES
    \* ---- plugins/database
    garbageCollectionLock,  \* owner of the mutex, NoOwner when unlocked
    gpc,                    \* position of each caller
    kind,                   \* "run" or "full": the entry point a caller is in, or "none"
    err,                    \* err of the pass last run by each caller
    cleanups,               \* cleanups counter of RunFullGarbageCollection
    rewritable,             \* files the engine can still rewrite
    cleanupEvents,          \* Events.DatabaseCleanup triggers, in order
    calls,                  \* calls made so far; a call's number names it
    callNo,                 \* number of the call each caller is in
    passes,                 \* passes run in the current call of each caller
    passesOk,               \* of those, passes that returned err == nil
    reported,               \* count logged at line 125, -1 when not logged
    dpc,                    \* position of the plugin: configure, run, serving
    versionRead,            \* what IsCorrectDatabaseVersion found at line 47
    closeWorker,            \* position of the "Close database" worker
    shutdownSignal,         \* the worker's shutdownSignal channel was closed
    healthy,                \* tangle.MarkDatabaseHealthy() was called
    closed,                 \* the badger instance was closed
    \* ---- plugins/tangle
    latestIndex,            \* tangle.GetLatestMilestoneIndex()
    solidIndex,             \* tangle.GetSolidMilestoneIndex()
    pruningIndex,           \* tangle.GetSnapshotInfo().PruningIndex
    poolQueue,              \* markers waiting in processValidMilestoneWorkerPool
    delivered,              \* markers delivered so far
    refCount,               \* reference count of the cached bundle of each index
    requests,               \* ancestor requests that still hold a reference
    solidifierQueue,        \* tasks waiting in milestoneSolidifierWorkerPool
    tpc,                    \* position of each worker in processValidMilestone
    cachedBndl,             \* index of the marker a worker processes, 0 if none
    solidMsIndex,           \* local of line 19
    latestMilestoneIndex,   \* local of line 22
    pruningIndexRead,       \* local of line 40
    trace,                  \* what the current call of a worker did, in order
    processed,              \* indices of the calls that ended, in order
    writes,                 \* per index, successful SetLatestMilestone calls
    changes,                \* per index, LatestMilestoneChanged events
    persistFailed,          \* some SetLatestMilestone returned an error
    halted,                 \* log.Panicf ended the process
    walk,                   \* target index each solidifier worker walks, 0 if none
    solidWasBehind          \* solidIndex <= latestIndex held at the read of line 19

gcVars == <<garbageCollectionLock, gpc, kind, err, cleanups, rewritable,
            cleanupEvents, calls, callNo, passes, passesOk, reported>>

lifecycleVars == <<dpc, versionRead, closeWorker, shutdownSignal, healthy, closed>>

dbVars == <<gcVars, lifecycleVars>>

tangleVars == <<latestIndex, solidIndex, pruningIndex, poolQueue, delivered,
                refCount, requests, solidifierQueue, tpc, cachedBndl,
                solidMsIndex, latestMilestoneIndex, pruningIndexRead, trace,
                processed, writes, changes, persistFailed, halted, walk,
                solidWasBehind>>

vars == <<dbVars, tangleVars>>

\* ------------------------------------------------- plugins/database/plugin.go

\* the first of the callers: the goroutine that runs the plugin's run
StartupCaller == CHOOSE p \in Callers : \A q \in Callers : p <= q

\* a registration made before the version is checked
RegisteredAlways(ok) == "waiting"

\* daemon.BackgroundWorker("Close database", ...) (line 51) is reached only
\* when the version check of line 47 passed
Registered(ok) == IF ok THEN "waiting" ELSE "unregistered"

\* configure (lines 29-58): the databases are opened, the version is checked
\* and log.Panic ends the process on a mismatch (lines 47-49), otherwise the
\* "Close database" worker is registered (lines 51-57)
Configure(ok) ==
    /\ dpc = "init"
    /\ versionRead' = IF ok THEN "match" ELSE "mismatch"
    /\ dpc' = IF ok THEN "configured" ELSE "panicked"
    /\ closeWorker' = Registered(ok)
    /\ UNCHANGED <<shutdownSignal, healthy, closed>>
    /\ UNCHANGED gcVars
    /\ UNCHANGED tangleVars

\* run (lines 128-130): RunFullGarbageCollection(0.01) at startup
Run ==
    /\ dpc = "configured"
    /\ dpc' = "running"
    /\ gpc[StartupCaller] = "idle"
    /\ calls < MaxCalls
    /\ calls' = calls + 1
    /\ callNo' = [callNo EXCEPT ![StartupCaller] = calls + 1]
    /\ kind' = [kind EXCEPT ![StartupCaller] = "full"]
    /\ gpc' = [gpc EXCEPT ![StartupCaller] = "lock"]
    /\ UNCHANGED <<garbageCollectionLock, err, cleanups, rewritable, cleanupEvents,
                   passes, passesOk, reported>>
    /\ UNCHANGED <<versionRead, closeWorker, shutdownSignal, healthy, closed>>
    /\ UNCHANGED tangleVars

\* the node serves: the plugin ran and the shutdown has not begun
Serving == dpc = "running" /\ ~shutdownSignal

\* the rest of the system has ceased its activity on the store
Ceased == \A p \in Callers : gpc[p] = "idle"

\* the shutdown sequencer closes the shutdownSignal channel of the worker,
\* whose priority (line 57) puts it after the rest of the system
Shutdown ==
    /\ Serving
    /\ Ceased
    /\ shutdownSignal' = TRUE
    /\ UNCHANGED <<dpc, versionRead, closeWorker, healthy, closed>>
    /\ UNCHANGED gcVars
    /\ UNCHANGED tangleVars

\* a receive that does not block
SignalIgnored(signal) == TRUE

\* <-shutdownSignal (line 52) returns once the channel was closed
SignalReceived(signal) == signal

\* the worker passes line 52
AwaitShutdown ==
    /\ closeWorker = "waiting"
    /\ SignalReceived(shutdownSignal)
    /\ closeWorker' = "signalled"
    /\ UNCHANGED <<dpc, versionRead, shutdownSignal, healthy, closed>>
    /\ UNCHANGED gcVars
    /\ UNCHANGED tangleVars

\* a worker that goes on to close the store without marking it
MarkDatabaseHealthySkipped ==
    /\ closeWorker = "signalled"
    /\ closeWorker' = "marked"
    /\ UNCHANGED <<dpc, versionRead, shutdownSignal, healthy, closed>>
    /\ UNCHANGED gcVars
    /\ UNCHANGED tangleVars

\* tangle.MarkDatabaseHealthy() (line 53)
MarkDatabaseHealthy ==
    /\ closeWorker = "signalled"
    /\ healthy' = TRUE
    /\ closeWorker' = "marked"
    /\ UNCHANGED <<dpc, versionRead, shutdownSignal, closed>>
    /\ UNCHANGED gcVars
    /\ UNCHANGED tangleVars

\* database.GetHornetBadgerInstance().Close() (line 55)
CloseDatabase ==
    /\ closeWorker = "marked"
    /\ closed' = TRUE
    /\ closeWorker' = "closed"
    /\ UNCHANGED <<dpc, versionRead, shutdownSignal, healthy>>
    /\ UNCHANGED gcVars
    /\ UNCHANGED tangleVars

\* a caller enters RunGarbageCollection (line 83)
CallRunGarbageCollection(p) ==
    /\ Serving
    /\ gpc[p] = "idle"
    /\ calls < MaxCalls
    /\ calls' = calls + 1
    /\ callNo' = [callNo EXCEPT ![p] = calls + 1]
    /\ kind' = [kind EXCEPT ![p] = "run"]
    /\ gpc' = [gpc EXCEPT ![p] = "lock"]
    /\ UNCHANGED <<garbageCollectionLock, err, cleanups, rewritable, cleanupEvents,
                   passes, passesOk, reported>>
    /\ UNCHANGED lifecycleVars
    /\ UNCHANGED tangleVars

\* a caller enters RunFullGarbageCollection (line 103)
CallRunFullGarbageCollection(p) ==
    /\ Serving
    /\ gpc[p] = "idle"
    /\ calls < MaxCalls
    /\ calls' = calls + 1
    /\ callNo' = [callNo EXCEPT ![p] = calls + 1]
    /\ kind' = [kind EXCEPT ![p] = "full"]
    /\ gpc' = [gpc EXCEPT ![p] = "lock"]
    /\ UNCHANGED <<garbageCollectionLock, err, cleanups, rewritable, cleanupEvents,
                   passes, passesOk, reported>>
    /\ UNCHANGED lifecycleVars
    /\ UNCHANGED tangleVars

\* a mutex that never blocks
LockFreeAlways(owner) == TRUE

\* garbageCollectionLock.Lock() is possible when nobody owns the mutex
LockFree(owner) == owner = NoOwner

\* garbageCollectionLock.Lock() (lines 84 and 104); the full run then sets
\* cleanups := 0 and err := nil (lines 110, 112)
Lock(p) ==
    /\ gpc[p] = "lock"
    /\ LockFree(garbageCollectionLock)
    /\ garbageCollectionLock' = p
    /\ IF kind[p] = "full"
       THEN /\ cleanups' = [cleanups EXCEPT ![p] = 0]
            /\ err' = [err EXCEPT ![p] = ErrNil]
            /\ gpc' = [gpc EXCEPT ![p] = "loop"]
       ELSE /\ gpc' = [gpc EXCEPT ![p] = "start"]
            /\ UNCHANGED <<cleanups, err>>
    /\ UNCHANGED <<kind, rewritable, cleanupEvents, calls, callNo, passes,
                   passesOk, reported>>
    /\ UNCHANGED lifecycleVars
    /\ UNCHANGED tangleVars

\* a loop that only stops on a failure
LoopContinuesUnlessFailed(e) == e # ErrOther

\* the loop condition of line 113
LoopContinues(e) == e = ErrNil

\* for err == nil (line 113): another pass, or fall out to line 125, log the
\* count and return
FullLoop(p) ==
    /\ gpc[p] = "loop"
    /\ IF LoopContinues(err[p])
       THEN /\ gpc' = [gpc EXCEPT ![p] = "start"]
            /\ UNCHANGED reported
       ELSE /\ reported' = [reported EXCEPT ![p] = cleanups[p]]
            /\ gpc' = [gpc EXCEPT ![p] = "unlock"]
    /\ UNCHANGED <<garbageCollectionLock, kind, err, cleanups, rewritable,
                   cleanupEvents, calls, callNo, passes, passesOk>>
    /\ UNCHANGED lifecycleVars
    /\ UNCHANGED tangleVars

\* runGarbageCollectionWithoutLocking, lines 62-66: the start event; the
\* start time of line 62 is the number of the pass within the call
PassStart(p) ==
    /\ gpc[p] = "start"
    /\ cleanupEvents' = Append(cleanupEvents,
                               [type |-> "start", by |-> p, call |-> callNo[p],
                                start |-> passes[p] + 1])
    /\ gpc' = [gpc EXCEPT ![p] = "cleanup"]
    /\ UNCHANGED <<garbageCollectionLock, kind, err, cleanups, rewritable, calls,
                   callNo, passes, passesOk, reported>>
    /\ UNCHANGED lifecycleVars
    /\ UNCHANGED tangleVars

\* database.CleanupHornetBadgerInstance (line 68): a file is rewritten, or
\* there is nothing to rewrite, or the engine fails
PassCleanup(p) ==
    /\ gpc[p] = "cleanup"
    /\ \E e \in {ErrNil, ErrNoRewrite, ErrOther} :
        /\ e = ErrNil => rewritable > 0
        /\ err' = [err EXCEPT ![p] = e]
        /\ rewritable' = IF e = ErrNil THEN rewritable - 1 ELSE rewritable
        /\ passesOk' = [passesOk EXCEPT ![p] = IF e = ErrNil THEN @ + 1 ELSE @]
    /\ passes' = [passes EXCEPT ![p] = @ + 1]
    /\ gpc' = [gpc EXCEPT ![p] = "finish"]
    /\ UNCHANGED <<garbageCollectionLock, kind, cleanups, cleanupEvents, calls,
                   callNo, reported>>
    /\ UNCHANGED lifecycleVars
    /\ UNCHANGED tangleVars

\* a pass that publishes no finish event when the engine failed
PassFinishUnlessFailed(p) ==
    /\ gpc[p] = "finish"
    /\ cleanupEvents' = IF err[p] = ErrOther
                        THEN cleanupEvents
                        ELSE Append(cleanupEvents,
                                    [type |-> "finish", by |-> p,
                                     call |-> callNo[p], start |-> passes[p]])
    /\ gpc' = [gpc EXCEPT ![p] = IF kind[p] = "full" THEN "check" ELSE "ret"]
    /\ UNCHANGED <<garbageCollectionLock, kind, err, cleanups, rewritable, calls,
                   callNo, passes, passesOk, reported>>
    /\ UNCHANGED lifecycleVars
    /\ UNCHANGED tangleVars

\* lines 69-79: the finish event with the start time of line 62, runtime.GC(),
\* return to the caller
PassFinish(p) ==
    /\ gpc[p] = "finish"
    /\ cleanupEvents' = Append(cleanupEvents,
                               [type |-> "finish", by |-> p, call |-> callNo[p],
                                start |-> passes[p]])
    /\ gpc' = [gpc EXCEPT ![p] = IF kind[p] = "full" THEN "check" ELSE "ret"]
    /\ UNCHANGED <<garbageCollectionLock, kind, err, cleanups, rewritable, calls,
                   callNo, passes, passesOk, reported>>
    /\ UNCHANGED lifecycleVars
    /\ UNCHANGED tangleVars

\* RunGarbageCollection, lines 90-100: every outcome is logged and the
\* function returns
RunReturn(p) ==
    /\ gpc[p] = "ret"
    /\ gpc' = [gpc EXCEPT ![p] = "unlock"]
    /\ UNCHANGED <<garbageCollectionLock, kind, err, cleanups, rewritable,
                   cleanupEvents, calls, callNo, passes, passesOk, reported>>
    /\ UNCHANGED lifecycleVars
    /\ UNCHANGED tangleVars

\* a count that includes the pass that found nothing to rewrite
CountedUnlessFailed(e) == e # ErrOther

\* the pass is counted when it returned no error (lines 115, 122)
Counted(e) == e = ErrNil

\* a full run that gives the mutex up after every counted pass
FullCheckUnlocking(p) ==
    /\ gpc[p] = "check"
    /\ garbageCollectionLock' = NoOwner
    /\ gpc' = [gpc EXCEPT ![p] = IF err[p] = ErrOther THEN "unlock" ELSE "loop"]
    /\ cleanups' = [cleanups EXCEPT ![p] = IF err[p] = ErrNil THEN @ + 1 ELSE @]
    /\ UNCHANGED <<kind, err, rewritable, cleanupEvents, calls, callNo, passes,
                   passesOk, reported>>
    /\ UNCHANGED lifecycleVars
    /\ UNCHANGED tangleVars

\* a full run that starts another pass after a failure of the engine
FullCheckRetrying(p) ==
    /\ gpc[p] = "check"
    /\ gpc' = [gpc EXCEPT ![p] = IF err[p] = ErrNoRewrite THEN "loop" ELSE "start"]
    /\ cleanups' = [cleanups EXCEPT ![p] = IF err[p] = ErrNil THEN @ + 1 ELSE @]
    /\ UNCHANGED <<garbageCollectionLock, kind, err, rewritable, cleanupEvents,
                   calls, callNo, passes, passesOk, reported>>
    /\ UNCHANGED lifecycleVars
    /\ UNCHANGED tangleVars

\* RunFullGarbageCollection, lines 115-122
FullCheck(p) ==
    /\ gpc[p] = "check"
    /\ IF ~Counted(err[p])
       THEN IF err[p] # ErrNoRewrite
            THEN \* warn and return (lines 117-118)
                 /\ gpc' = [gpc EXCEPT ![p] = "unlock"]
                 /\ UNCHANGED cleanups
            ELSE \* continue (line 120)
                 /\ gpc' = [gpc EXCEPT ![p] = "loop"]
                 /\ UNCHANGED cleanups
       ELSE \* cleanups++ (line 122)
            /\ cleanups' = [cleanups EXCEPT ![p] = @ + 1]
            /\ gpc' = [gpc EXCEPT ![p] = "loop"]
    /\ UNCHANGED <<garbageCollectionLock, kind, err, rewritable, cleanupEvents,
                   calls, callNo, passes, passesOk, reported>>
    /\ UNCHANGED lifecycleVars
    /\ UNCHANGED tangleVars

\* the deferred garbageCollectionLock.Unlock() (lines 85 and 105) runs when
\* the function returns; its locals are gone
Unlock(p) ==
    /\ gpc[p] = "unlock"
    /\ garbageCollectionLock' = NoOwner
    /\ gpc' = [gpc EXCEPT ![p] = "idle"]
    /\ kind' = [kind EXCEPT ![p] = "none"]
    /\ err' = [err EXCEPT ![p] = ErrNil]
    /\ cleanups' = [cleanups EXCEPT ![p] = 0]
    /\ callNo' = [callNo EXCEPT ![p] = 0]
    /\ passes' = [passes EXCEPT ![p] = 0]
    /\ passesOk' = [passesOk EXCEPT ![p] = 0]
    /\ reported' = [reported EXCEPT ![p] = -1]
    /\ UNCHANGED <<rewritable, cleanupEvents, calls>>
    /\ UNCHANGED lifecycleVars
    /\ UNCHANGED tangleVars

DatabaseInit ==
    /\ garbageCollectionLock = NoOwner
    /\ gpc = [p \in Callers |-> "idle"]
    /\ kind = [p \in Callers |-> "none"]
    /\ err = [p \in Callers |-> ErrNil]
    /\ cleanups = [p \in Callers |-> 0]
    /\ rewritable = MaxRewrites
    /\ cleanupEvents = <<>>
    /\ calls = 0
    /\ callNo = [p \in Callers |-> 0]
    /\ passes = [p \in Callers |-> 0]
    /\ passesOk = [p \in Callers |-> 0]
    /\ reported = [p \in Callers |-> -1]
    /\ dpc = "init"
    /\ versionRead = "unread"
    /\ closeWorker = "unregistered"
    /\ shutdownSignal = FALSE
    /\ healthy = FALSE
    /\ closed = FALSE

DatabaseNext ==
    \/ \E ok \in BOOLEAN : Configure(ok)
    \/ Run
    \/ Shutdown
    \/ AwaitShutdown
    \/ MarkDatabaseHealthy
    \/ CloseDatabase
    \/ \E p \in Callers :
        \/ CallRunGarbageCollection(p)
        \/ CallRunFullGarbageCollection(p)
        \/ Lock(p)
        \/ FullLoop(p)
        \/ PassStart(p)
        \/ PassCleanup(p)
        \/ PassFinish(p)
        \/ RunReturn(p)
        \/ FullCheck(p)
        \/ Unlock(p)

\* ------------------------------------------- plugins/tangle (part_000)

\* cachedBndl.Retain()
Retain(rc, m) == [rc EXCEPT ![m] = @ + 1]

\* cachedBndl.Release()
Release(rc, m) == [rc EXCEPT ![m] = @ - 1]

\* the caller of a bundle event: every observer runs inline on a reference
\* retained for it, and releases it
TriggerBundle(rc, m) == Release(Retain(rc, m), m)

\* the gossip layer delivers a valid milestone bundle: one owning reference
\* is handed to processValidMilestoneWorkerPool
Deliver(m) ==
    /\ ~halted
    /\ delivered < MaxMarkers
    /\ delivered' = delivered + 1
    /\ poolQueue' = Append(poolQueue, m)
    /\ refCount' = Retain(refCount, m)
    /\ UNCHANGED <<latestIndex, solidIndex, pruningIndex, requests,
                   solidifierQueue, tpc, cachedBndl, solidMsIndex,
                   latestMilestoneIndex, pruningIndexRead, trace, processed,
                   writes, changes, persistFailed, halted>>
    /\ UNCHANGED <<walk, solidWasBehind>>
    /\ UNCHANGED dbVars

\* a free worker of processValidMilestoneWorkerPool takes the next marker and
\* enters processValidMilestone (lines 14-15)
Dequeue(w) ==
    /\ ~halted
    /\ tpc[w] = "idle"
    /\ poolQueue # <<>>
    /\ cachedBndl' = [cachedBndl EXCEPT ![w] = Head(poolQueue)]
    /\ poolQueue' = Tail(poolQueue)
    /\ tpc' = [tpc EXCEPT ![w] = "received"]
    /\ UNCHANGED <<latestIndex, solidIndex, pruningIndex, delivered, refCount,
                   requests, solidifierQueue, solidMsIndex, latestMilestoneIndex,
                   pruningIndexRead, trace, processed, writes, changes,
                   persistFailed, halted>>
    /\ UNCHANGED <<walk, solidWasBehind>>
    /\ UNCHANGED dbVars

\* Events.ReceivedNewMilestone.Trigger(cachedBndl) (line 17)
TriggerReceivedNewMilestone(w) ==
    /\ ~halted
    /\ tpc[w] = "received"
    /\ trace' = [trace EXCEPT ![w] = Append(@, "received")]
    /\ refCount' = TriggerBundle(refCount, cachedBndl[w])
    /\ tpc' = [tpc EXCEPT ![w] = "readSolid"]
    /\ UNCHANGED <<latestIndex, solidIndex, pruningIndex, poolQueue, delivered,
                   requests, solidifierQueue, cachedBndl, solidMsIndex,
                   latestMilestoneIndex, pruningIndexRead, processed, writes,
                   changes, persistFailed, halted>>
    /\ UNCHANGED <<walk, solidWasBehind>>
    /\ UNCHANGED dbVars

\* solidMsIndex := tangle.GetSolidMilestoneIndex() (line 19)
ReadSolid(w) ==
    /\ ~halted
    /\ tpc[w] = "readSolid"
    /\ solidMsIndex' = [solidMsIndex EXCEPT ![w] = solidIndex]
    /\ solidWasBehind' = [solidWasBehind EXCEPT ![w] = (solidIndex <= latestIndex)]
    /\ trace' = [trace EXCEPT ![w] = Append(@, "readSolid")]
    /\ tpc' = [tpc EXCEPT ![w] = "readLatest"]
    /\ UNCHANGED <<latestIndex, solidIndex, pruningIndex, poolQueue, delivered,
                   refCount, requests, solidifierQueue, cachedBndl,
                   latestMilestoneIndex, pruningIndexRead, processed,
                   writes, changes, persistFailed, halted>>
    /\ UNCHANGED walk
    /\ UNCHANGED dbVars

\* a test that also lets a marker below the latest index through
LatestDiffers(latest, bundleMsIndex) == latest # bundleMsIndex

\* a test that leaves the latest index alone for a marker one above it
LatestIsMuchOlder(latest, bundleMsIndex) == latest + 1 < bundleMsIndex

\* a condition that also holds for a marker of the latest index
LatestIsOlderOrEqual(latest, bundleMsIndex) == latest <= bundleMsIndex

\* latestMilestoneIndex < bundleMsIndex (line 23)
LatestIsOlder(latest, bundleMsIndex) == latest < bundleMsIndex

\* latestMilestoneIndex := tangle.GetLatestMilestoneIndex() and the
\* comparison of the local with the marker's index (lines 22-23)
ReadLatest(w) ==
    /\ ~halted
    /\ tpc[w] = "readLatest"
    /\ latestMilestoneIndex' = [latestMilestoneIndex EXCEPT ![w] = latestIndex]
    /\ tpc' = [tpc EXCEPT ![w] =
                  IF LatestIsOlder(latestIndex, cachedBndl[w]) THEN "set" ELSE "submit"]
    /\ trace' = [trace EXCEPT ![w] = Append(@, "readLatest")]
    /\ UNCHANGED <<latestIndex, solidIndex, pruningIndex, poolQueue, delivered,
                   refCount, requests, solidifierQueue, cachedBndl, solidMsIndex,
                   pruningIndexRead, processed, writes, changes,
                   persistFailed, halted>>
    /\ UNCHANGED <<walk, solidWasBehind>>
    /\ UNCHANGED dbVars

\* tangle.SetLatestMilestone: the marker is persisted and becomes the latest
\* milestone, or persisting fails and nothing changes
SetLatestMilestone(latest, m, ok) == IF ok THEN m ELSE latest

\* err := tangle.SetLatestMilestone(cachedBndl.Retain()); the error is logged
\* (lines 24-27).  The callee releases the reference it was handed.
SetLatest(w) ==
    /\ ~halted
    /\ tpc[w] = "set"
    /\ \E ok \in BOOLEAN :
        /\ latestIndex' = SetLatestMilestone(latestIndex, cachedBndl[w], ok)
        /\ trace' = [trace EXCEPT ![w] = Append(@, IF ok THEN "write" ELSE "writeFailed")]
        /\ writes' = [writes EXCEPT ![cachedBndl[w]] = IF ok THEN @ + 1 ELSE @]
        /\ persistFailed' = (persistFailed \/ ~ok)
    /\ refCount' = Release(Retain(refCount, cachedBndl[w]), cachedBndl[w])
    /\ tpc' = [tpc EXCEPT ![w] = "changed"]
    /\ UNCHANGED <<solidIndex, pruningIndex, poolQueue, delivered, requests,
                   solidifierQueue, cachedBndl, solidMsIndex,
                   latestMilestoneIndex, pruningIndexRead, processed, changes,
                   halted>>
    /\ UNCHANGED <<walk, solidWasBehind>>
    /\ UNCHANGED dbVars

\* Events.LatestMilestoneChanged.Trigger(cachedBndl) (line 29), whatever err was
TriggerLatestMilestoneChanged(w) ==
    /\ ~halted
    /\ tpc[w] = "changed"
    /\ trace' = [trace EXCEPT ![w] = Append(@, "changed")]
    /\ changes' = [changes EXCEPT ![cachedBndl[w]] = @ + 1]
    /\ refCount' = TriggerBundle(refCount, cachedBndl[w])
    /\ tpc' = [tpc EXCEPT ![w] = "submit"]
    /\ UNCHANGED <<latestIndex, solidIndex, pruningIndex, poolQueue, delivered,
                   requests, solidifierQueue, cachedBndl, solidMsIndex,
                   latestMilestoneIndex, pruningIndexRead, processed, writes,
                   persistFailed, halted>>
    /\ UNCHANGED <<walk, solidWasBehind>>
    /\ UNCHANGED dbVars

\* a submission that is made only by a call that advanced the latest index
SubmitSolidificationOnlyIfNew(w) ==
    /\ ~halted
    /\ tpc[w] = "submit"
    /\ IF "write" \in {trace[w][i] : i \in 1..Len(trace[w])}
       THEN /\ solidifierQueue' = Append(solidifierQueue, cachedBndl[w])
            /\ trace' = [trace EXCEPT ![w] = Append(@, "submit")]
       ELSE UNCHANGED <<solidifierQueue, trace>>
    /\ tpc' = [tpc EXCEPT ![w] = "branch"]
    /\ UNCHANGED <<latestIndex, solidIndex, pruningIndex, poolQueue, delivered,
                   refCount, requests, cachedBndl, solidMsIndex,
                   latestMilestoneIndex, pruningIndexRead, processed, writes,
                   changes, persistFailed, halted>>
    /\ UNCHANGED <<walk, solidWasBehind>>
    /\ UNCHANGED dbVars

\* milestoneSolidifierWorkerPool.Submit(...) (line 31)
SubmitSolidification(w) ==
    /\ ~halted
    /\ tpc[w] = "submit"
    /\ solidifierQueue' = Append(solidifierQueue, cachedBndl[w])
    /\ trace' = [trace EXCEPT ![w] = Append(@, "submit")]
    /\ tpc' = [tpc EXCEPT ![w] = "branch"]
    /\ UNCHANGED <<latestIndex, solidIndex, pruningIndex, poolQueue, delivered,
                   refCount, requests, cachedBndl, solidMsIndex,
                   latestMilestoneIndex, pruningIndexRead, processed, writes,
                   changes, persistFailed, halted>>
    /\ UNCHANGED <<walk, solidWasBehind>>
    /\ UNCHANGED dbVars

\* a condition that also holds for a marker of the solid index
BeyondSolidOrEqual(bundleMsIndex, solid) == bundleMsIndex >= solid

\* bundleMsIndex > solidMsIndex (line 33)
BeyondSolid(bundleMsIndex, solid) == bundleMsIndex > solid

\* a request that hands the caller's own reference on
RequestMilestoneApproveesNoRetain(w) ==
    /\ ~halted
    /\ tpc[w] = "branch"
    /\ BeyondSolid(cachedBndl[w], solidMsIndex[w])
    /\ requests' = [requests EXCEPT ![cachedBndl[w]] = @ + 1]
    /\ trace' = [trace EXCEPT ![w] = Append(@, "request")]
    /\ tpc' = [tpc EXCEPT ![w] = "ret"]
    /\ UNCHANGED <<latestIndex, solidIndex, pruningIndex, poolQueue, delivered,
                   refCount, solidifierQueue, cachedBndl, solidMsIndex,
                   latestMilestoneIndex, pruningIndexRead, processed, writes,
                   changes, persistFailed, halted>>
    /\ UNCHANGED <<walk, solidWasBehind>>
    /\ UNCHANGED dbVars

\* gossip.RequestMilestoneApprovees(cachedBndl.Retain()) (lines 33-37)
RequestMilestoneApprovees(w) ==
    /\ ~halted
    /\ tpc[w] = "branch"
    /\ BeyondSolid(cachedBndl[w], solidMsIndex[w])
    /\ refCount' = Retain(refCount, cachedBndl[w])
    /\ requests' = [requests EXCEPT ![cachedBndl[w]] = @ + 1]
    /\ trace' = [trace EXCEPT ![w] = Append(@, "request")]
    /\ tpc' = [tpc EXCEPT ![w] = "ret"]
    /\ UNCHANGED <<latestIndex, solidIndex, pruningIndex, poolQueue, delivered,
                   solidifierQueue, cachedBndl, solidMsIndex,
                   latestMilestoneIndex, pruningIndexRead, processed, writes,
                   changes, persistFailed, halted>>
    /\ UNCHANGED <<walk, solidWasBehind>>
    /\ UNCHANGED dbVars

\* a check that also fires for a marker of the pruning index
BelowPruningOrEqual(bundleMsIndex, pruning) == bundleMsIndex <= pruning

\* bundleMsIndex < pruningIndex (line 41)
BelowPruning(bundleMsIndex, pruning) == bundleMsIndex < pruning

\* the else branch, lines 39-45: pruningIndex is read; below it log.Panicf
\* panics, the deferred Release runs and the process ends
CheckPruning(w) ==
    /\ ~halted
    /\ tpc[w] = "branch"
    /\ ~BeyondSolid(cachedBndl[w], solidMsIndex[w])
    /\ pruningIndexRead' = [pruningIndexRead EXCEPT ![w] = pruningIndex]
    /\ IF BelowPruning(cachedBndl[w], pruningIndex)
       THEN /\ trace' = [trace EXCEPT ![w] = Append(Append(@, "readPruning"), "panic")]
            /\ refCount' = Release(refCount, cachedBndl[w])
            /\ processed' = Append(processed, cachedBndl[w])
            /\ tpc' = [tpc EXCEPT ![w] = "halted"]
            /\ halted' = TRUE
       ELSE /\ trace' = [trace EXCEPT ![w] = Append(@, "readPruning")]
            /\ tpc' = [tpc EXCEPT ![w] = "ret"]
            /\ UNCHANGED <<refCount, processed, halted>>
    /\ UNCHANGED <<latestIndex, solidIndex, pruningIndex, poolQueue, delivered,
                   requests, solidifierQueue, cachedBndl, solidMsIndex,
                   latestMilestoneIndex, writes, changes, persistFailed>>
    /\ UNCHANGED <<walk, solidWasBehind>>
    /\ UNCHANGED dbVars

\* return from processValidMilestone: the deferred cachedBndl.Release() of
\* line 15 runs, the locals are gone and the worker is free again
Return(w) ==
    /\ ~halted
    /\ tpc[w] = "ret"
    /\ refCount' = Release(refCount, cachedBndl[w])
    /\ processed' = Append(processed, cachedBndl[w])
    /\ tpc' = [tpc EXCEPT ![w] = "idle"]
    /\ cachedBndl' = [cachedBndl EXCEPT ![w] = 0]
    /\ trace' = [trace EXCEPT ![w] = <<>>]
    /\ solidMsIndex' = [solidMsIndex EXCEPT ![w] = 0]
    /\ latestMilestoneIndex' = [latestMilestoneIndex EXCEPT ![w] = 0]
    /\ pruningIndexRead' = [pruningIndexRead EXCEPT ![w] = 0]
    /\ solidWasBehind' = [solidWasBehind EXCEPT ![w] = TRUE]
    /\ UNCHANGED <<latestIndex, solidIndex, pruningIndex, poolQueue, delivered,
                   requests, solidifierQueue, writes, changes, persistFailed,
                   halted>>
    /\ UNCHANGED walk
    /\ UNCHANGED dbVars

\* the gossip layer is done with an ancestor request, or abandons it, and
\* releases the reference it was handed
RequestDone(m) ==
    /\ ~halted
    /\ requests[m] > 0
    /\ requests' = [requests EXCEPT ![m] = @ - 1]
    /\ refCount' = Release(refCount, m)
    /\ UNCHANGED <<latestIndex, solidIndex, pruningIndex, poolQueue, delivered,
                   solidifierQueue, tpc, cachedBndl, solidMsIndex,
                   latestMilestoneIndex, pruningIndexRead, trace, processed,
                   writes, changes, persistFailed, halted>>
    /\ UNCHANGED <<walk, solidWasBehind>>
    /\ UNCHANGED dbVars

\* a free worker of milestoneSolidifierWorkerPool takes the next task and
\* starts the walk of processSolidificationTask for its target index
SolidifierStart(s) ==
    /\ ~halted
    /\ walk[s] = 0
    /\ solidifierQueue # <<>>
    /\ walk' = [walk EXCEPT ![s] = Head(solidifierQueue)]
    /\ solidifierQueue' = Tail(solidifierQueue)
    /\ UNCHANGED <<latestIndex, solidIndex, pruningIndex, poolQueue, delivered,
                   refCount, requests, tpc, cachedBndl, solidMsIndex,
                   latestMilestoneIndex, pruningIndexRead, trace, processed,
                   writes, changes, persistFailed, halted, solidWasBehind>>
    /\ UNCHANGED dbVars

\* the walk ends: the ancestry of the target index is incomplete and the
\* solid index stays, or it is complete up to x and the solid index advances
\* to x, never past the target index of the task
Solidify(s, x) ==
    /\ ~halted
    /\ walk[s] # 0
    /\ x = solidIndex \/ (x > solidIndex /\ x <= walk[s])
    /\ solidIndex' = x
    /\ walk' = [walk EXCEPT ![s] = 0]
    /\ UNCHANGED <<latestIndex, pruningIndex, poolQueue, delivered, refCount,
                   requests, solidifierQueue, tpc, cachedBndl, solidMsIndex,
                   latestMilestoneIndex, pruningIndexRead, trace, processed,
                   writes, changes, persistFailed, halted, solidWasBehind>>
    /\ UNCHANGED dbVars

\* the snapshot plugin prunes: the pruning index only grows
Prune(x) ==
    /\ ~halted
    /\ x > pruningIndex
    /\ pruningIndex' = x
    /\ UNCHANGED <<latestIndex, solidIndex, poolQueue, delivered, refCount,
                   requests, solidifierQueue, tpc, cachedBndl, solidMsIndex,
                   latestMilestoneIndex, pruningIndexRead, trace, processed,
                   writes, changes, persistFailed, halted>>
    /\ UNCHANGED <<walk, solidWasBehind>>
    /\ UNCHANGED dbVars

TangleInit ==
    /\ latestIndex = 0
    /\ solidIndex = 0
    /\ pruningIndex = 0
    /\ poolQueue = <<>>
    /\ delivered = 0
    /\ refCount = [m \in Indices |-> 0]
    /\ requests = [m \in Indices |-> 0]
    /\ solidifierQueue = <<>>
    /\ tpc = [w \in Workers |-> "idle"]
    /\ cachedBndl = [w \in Workers |-> 0]
    /\ solidMsIndex = [w \in Workers |-> 0]
    /\ latestMilestoneIndex = [w \in Workers |-> 0]
    /\ pruningIndexRead = [w \in Workers |-> 0]
    /\ trace = [w \in Workers |-> <<>>]
    /\ processed = <<>>
    /\ writes = [m \in Indices |-> 0]
    /\ changes = [m \in Indices |-> 0]
    /\ persistFailed = FALSE
    /\ halted = FALSE
    /\ walk = [s \in SolidifierWorkers |-> 0]
    /\ solidWasBehind = [w \in Workers |-> TRUE]

TangleNext ==
    \/ \E m \in Indices : Deliver(m)
    \/ \E w \in Workers :
        \/ Dequeue(w)
        \/ TriggerReceivedNewMilestone(w)
        \/ ReadSolid(w)
        \/ ReadLatest(w)
        \/ SetLatest(w)
        \/ TriggerLatestMilestoneChanged(w)
        \/ SubmitSolidification(w)
        \/ RequestMilestoneApprovees(w)
        \/ CheckPruning(w)
        \/ Return(w)
    \/ \E m \in Indices : RequestDone(m)
    \/ \E s \in SolidifierWorkers :
        \/ SolidifierStart(s)
        \/ \E x \in 0..MaxIndex : Solidify(s, x)
    \/ \E x \in Indices : Prune(x)

Init == DatabaseInit /\ TangleInit

\* log.Panicf ends the process: nothing runs after it
Next == ~halted /\ (DatabaseNext \/ TangleNext)

Spec == Init /\ [][Next]_vars

DatabaseSpec == Init /\ [][DatabaseNext]_vars

TangleSpec == Init /\ [][TangleNext]_vars

\* the steps of a caller that wait for nothing
Proceed(p) ==
    \/ FullLoop(p)
    \/ PassStart(p)
    \/ PassCleanup(p)
    \/ PassFinish(p)
    \/ RunReturn(p)
    \/ FullCheck(p)
    \/ Unlock(p)

\* the steps of the "Close database" worker
CloseWorkerProceed == AwaitShutdown \/ MarkDatabaseHealthy \/ CloseDatabase

\* A caller that entered one of the two functions keeps running (the Go
\* scheduler starves no runnable goroutine), and sync.Mutex hands the mutex to
\* a goroutine that keeps waiting for it (starvation mode): strong fairness
\* for Lock.  Nothing obliges a caller to make a call.  The goroutine of the
\* "Close database" worker keeps running as well.
DatabaseFairness ==
    /\ \A p \in Callers : SF_vars(Lock(p)) /\ WF_vars(Proceed(p))
    /\ WF_vars(CloseWorkerProceed)

DatabaseLiveSpec == DatabaseSpec /\ DatabaseFairness

\* ------------------------------------------------------ database properties

\* a caller is inside runGarbageCollectionWithoutLocking
PassActive(p) == gpc[p] \in {"start", "cleanup", "finish"}

\* a caller is inside RunFullGarbageCollection, past Lock()
FullRunActive(p) ==
    /\ kind[p] = "full"
    /\ gpc[p] \in {"loop", "start", "cleanup", "finish", "check", "unlock"}

\* C1: RunGarbageCollection and RunFullGarbageCollection exclude each other:
\* at most one pass is active at any time, and the cleanup events are
\* serialized pairs, every start event directly followed by the finish event
\* of the same pass.
C1_PassesSerialized ==
    /\ Cardinality({p \in Callers : PassActive(p)}) <= 1
    /\ \A i \in 1..Len(cleanupEvents) :
        IF i % 2 = 1
        THEN cleanupEvents[i].type = "start"
        ELSE /\ cleanupEvents[i].type = "finish"
             /\ cleanupEvents[i].by = cleanupEvents[i - 1].by
             /\ cleanupEvents[i].call = cleanupEvents[i - 1].call

\* a single pass is waiting for the mutex while a pass of a full run of
\* another caller is between its two events
C1_Witness ==
    \E p, q \in Callers :
        /\ p # q
        /\ kind[p] = "full" /\ gpc[p] = "finish"
        /\ kind[q] = "run" /\ gpc[q] = "lock"
        /\ Len(cleanupEvents) % 2 = 1

\* C6: RunFullGarbageCollection holds the mutex for its whole sequence of
\* passes: while a full run is between Lock and Unlock it owns the mutex, every
\* other caller is outside or blocked in Lock(), and the events of one full
\* run are contiguous in the event order.
C6_FullRunHoldsLock ==
    /\ \A p \in Callers :
        FullRunActive(p) =>
            /\ garbageCollectionLock = p
            /\ \A q \in Callers \ {p} : gpc[q] \in {"idle", "lock"}
    /\ \A i, k \in 1..Len(cleanupEvents) :
        (i < k /\ cleanupEvents[i].call = cleanupEvents[k].call)
            => cleanupEvents[i + 1].call = cleanupEvents[i].call

\* a full run is between its second and third pass while another caller is
\* blocked in Lock()
C6_Witness ==
    \E p, q \in Callers :
        /\ p # q
        /\ FullRunActive(p) /\ gpc[p] = "loop" /\ passes[p] >= 2
        /\ gpc[q] = "lock"

\* C7: once the engine returned ErrNoRewrite a full run performs no further
\* pass, returns and releases the mutex; every call that was started
\* eventually returns and every caller blocked in Lock() eventually owns the
\* mutex.
C7_FullRunTerminates ==
    /\ [][\A p \in Callers :
            (FullRunActive(p) /\ gpc[p] # "cleanup" /\ gpc[p] # "start"
                /\ err[p] = ErrNoRewrite)
            => /\ passes'[p] <= passes[p]
               /\ gpc'[p] \in {"finish", "check", "loop", "unlock", "idle"}
               /\ (gpc'[p] = "idle" => garbageCollectionLock' = NoOwner)]_vars
    /\ \A p \in Callers :
        /\ (gpc[p] # "idle") ~> (gpc[p] = "idle")
        /\ (gpc[p] = "lock") ~> (garbageCollectionLock = p)

\* a full run returns on ErrNoRewrite after two counted passes
C7_Witness ==
    \E p \in Callers :
        kind[p] = "full" /\ gpc[p] = "unlock" /\ err[p] = ErrNoRewrite /\ passes[p] = 3

\* C8: the count a full run reports is the number of its passes that returned
\* no error, which is the number of its passes minus one.
C8_ReportedCount ==
    \A p \in Callers :
        reported[p] >= 0 =>
            /\ reported[p] = passesOk[p]
            /\ reported[p] = passes[p] - 1

\* a full run reported two passes
C8_Witness == \E p \in Callers : reported[p] = 2

\* --------------------------------------------------------- tangle properties

Range(q) == {q[i] : i \in 1..Len(q)}

Occurrences(q, x) == Cardinality({i \in 1..Len(q) : q[i] = x})

NonDecreasing(q) == \A i \in 1..Len(q) - 1 : q[i] <= q[i + 1]

\* a worker is inside a call of processValidMilestone and holds its reference
InCall(w) == tpc[w] \notin {"idle", "halted"}

\* a call took its branch: it is about to return, or it panicked
AtEnd(w) == tpc[w] \in {"ret", "halted"}

\* C2: latestIndex never decreases, whatever the order in which markers are
\* delivered and however the steps of processValidMilestone interleave with
\* the rest of the plugin.
C2_LatestMonotonic == [][latestIndex' >= latestIndex]_vars

\* a call found the latest index above its marker's index and left it alone
C2_Witness ==
    \E w \in Workers :
        /\ tpc[w] = "ret"
        /\ latestMilestoneIndex[w] > cachedBndl[w]
        /\ latestIndex = latestMilestoneIndex[w]

\* C3: after markers were processed one after another in increasing index
\* order and every SetLatestMilestone succeeded, latestIndex is the highest
\* index processed, and every index processed was written exactly once and
\* announced by exactly one LatestMilestoneChanged event.
C3_LatestIsMaximum ==
    (/\ \A w \in Workers : ~InCall(w)
     /\ ~persistFailed
     /\ processed # <<>>
     /\ NonDecreasing(processed))
    => /\ latestIndex = processed[Len(processed)]
       /\ \A m \in Indices :
            /\ writes[m] = IF m \in Range(processed) THEN 1 ELSE 0
            /\ changes[m] = writes[m]

\* the same index was processed twice in a row, and written once
C3_Witness ==
    /\ \A w \in Workers : tpc[w] = "idle"
    /\ ~persistFailed
    /\ Len(processed) = 2
    /\ processed[1] = processed[2]
    /\ writes[processed[1]] = 1

\* C4: a call halts exactly when its marker's index is not above the solid
\* index read at line 19 and below the pruning index read at line 40; a call
\* whose marker is not above that solid index issues no ancestor request.
C4_HaltsIffBelowPruning ==
    \A w \in Workers :
        AtEnd(w) =>
            /\ (tpc[w] = "halted") <=>
                    (/\ cachedBndl[w] <= solidMsIndex[w]
                     /\ cachedBndl[w] < pruningIndexRead[w])
            /\ cachedBndl[w] <= solidMsIndex[w] => "request" \notin Range(trace[w])
            /\ (cachedBndl[w] > solidMsIndex[w] /\ cachedBndl[w] < pruningIndex)
                    => tpc[w] # "halted"

\* a call halted on a marker below the pruning index
C4_Witness ==
    \E w \in Workers :
        /\ tpc[w] = "halted"
        /\ cachedBndl[w] <= solidMsIndex[w]
        /\ cachedBndl[w] < pruningIndexRead[w]

\* C5: when SetLatestMilestone fails, latestIndex is not advanced, and the
\* LatestMilestoneChanged event is published only after a SetLatestMilestone
\* that succeeded.
C5_ChangedOnlyWhenPersisted ==
    \A w \in Workers :
        /\ "writeFailed" \in Range(trace[w]) => latestIndex = latestMilestoneIndex[w]
        /\ "changed" \in Range(trace[w]) => "write" \in Range(trace[w])

\* the references that are owed for a marker: one per waiting delivery, one
\* per call in progress, one per ancestor request not yet done
Holders(m) ==
    Occurrences(poolQueue, m)
        + Cardinality({w \in Workers : InCall(w) /\ cachedBndl[w] = m})
        + requests[m]

\* C9: every call releases the reference it owns exactly once, on every exit
\* path, and hands on only references retained in addition: the reference
\* count of a marker is always the number of its holders, and it is at least
\* one while a call uses the marker.
C9_ReferencesBalanced ==
    /\ \A m \in Indices : refCount[m] = Holders(m)
    /\ \A w \in Workers : InCall(w) => refCount[cachedBndl[w]] >= 1

\* a call whose SetLatestMilestone failed has returned and only the ancestor
\* request still holds the marker
C9_Witness ==
    /\ \A w \in Workers : tpc[w] = "idle"
    /\ persistFailed
    /\ \E m \in Indices :
        /\ processed = <<m>>
        /\ requests[m] = 1
        /\ refCount[m] = 1

\* C10: a call issues an ancestor request exactly when its marker's index is
\* above the solid index read at line 19, never more than one, and a call that
\* issued one does not halt.
C10_RequestIffBeyondSolid ==
    \A w \in Workers :
        /\ Occurrences(trace[w], "request") <= 1
        /\ AtEnd(w) =>
            (Occurrences(trace[w], "request") =
                IF cachedBndl[w] > solidMsIndex[w] THEN 1 ELSE 0)
        /\ "request" \in Range(trace[w]) => tpc[w] # "halted"

\* a call read a solid index above zero and requested the ancestors of a
\* marker above it
C10_Witness ==
    \E w \in Workers :
        /\ tpc[w] = "ret"
        /\ solidMsIndex[w] >= 1
        /\ "request" \in Range(trace[w])

\* C11: every call submits exactly one solidification task, whose target is
\* the index of the call's marker, before it branches on the solid and the
\* pruning index: a call never holds two submissions, a call that returned or
\* halted holds one, each submission appends the marker's index to the queue
\* of the solidifier pool, and nothing else appends to that queue.
C11_SubmitsExactlyOnce ==
    /\ [](\A w \in Workers :
            /\ Occurrences(trace[w], "submit") <= 1
            /\ tpc[w] \in {"branch", "ret", "halted"}
                    => Occurrences(trace[w], "submit") = 1)
    /\ [][/\ \A w \in Workers :
                (Occurrences(trace'[w], "submit") > Occurrences(trace[w], "submit"))
                    => (solidifierQueue' = Append(solidifierQueue, cachedBndl[w]))
          /\ (Len(solidifierQueue') > Len(solidifierQueue))
                    => (\E w \in Workers :
                            /\ tpc[w] = "submit"
                            /\ trace'[w] = Append(trace[w], "submit"))]_vars

\* a call whose marker was not above the latest index has submitted its task
\* and then halted
C11_Witness ==
    \E w \in Workers :
        /\ tpc[w] = "halted"
        /\ "write" \notin Range(trace[w])
        /\ Occurrences(trace[w], "submit") = 1

Walking == {s \in SolidifierWorkers : walk[s] # 0}

StepRank(e) ==
    CASE e = "received" -> 1
      [] e = "readSolid" -> 2
      [] e = "readLatest" -> 3
      [] e \in {"write", "writeFailed"} -> 4
      [] e = "changed" -> 5
      [] e = "submit" -> 6
      [] e \in {"request", "readPruning"} -> 7
      [] e = "panic" -> 8

\* the steps of one call were taken in the order of the body
InOrder(q) == \A i \in 1..Len(q) - 1 : StepRank(q[i]) < StepRank(q[i + 1])

\* the order of the steps alone: ReceivedNewMilestone is published once and
\* first, the attempt to set the latest milestone precedes the
\* LatestMilestoneChanged event, the event precedes the submission, and the
\* submission precedes the ancestor request and the halt
StepsInOrder ==
    \A w \in Workers :
        /\ InOrder(trace[w])
        /\ tpc[w] \notin {"idle", "received"} =>
                /\ trace[w][1] = "received"
                /\ Occurrences(trace[w], "received") = 1
        /\ "changed" \in Range(trace[w]) => "submit" \notin Range(trace[w])
                \/ \E i, j \in 1..Len(trace[w]) :
                    i < j /\ trace[w][i] = "changed" /\ trace[w][j] = "submit"

\* C19: the steps of one call occur in a fixed order: ReceivedNewMilestone is
\* published first, before any read or write of the indices, and exactly once
\* per call; LatestMilestoneChanged, when published, comes after the write of
\* latestIndex and before the submission of the solidification task; the
\* submission precedes the ancestor request or the halt.
C19_StepsInFixedOrder ==
    /\ StepsInOrder
    /\ \A w \in Workers :
        \A j \in 1..Len(trace[w]) :
            trace[w][j] = "changed" =>
                \E i \in 1..j - 1 : trace[w][i] = "write"

\* C20: a call that read the solid index at line 19 while it was not above
\* the latest index, and that then advanced latestIndex, has a marker above
\* the solid index it read: it takes the ancestor-request branch, never reads
\* the pruning index and never halts, although the two indices are read in
\* separate steps between which the solidification worker may run.
C20_AdvanceImpliesRequest ==
    \A w \in Workers :
        (solidWasBehind[w] /\ "write" \in Range(trace[w])) =>
            /\ cachedBndl[w] > solidMsIndex[w]
            /\ "readPruning" \notin Range(trace[w])
            /\ "panic" \notin Range(trace[w])
            /\ AtEnd(w) => (tpc[w] = "ret" /\ "request" \in Range(trace[w]))

\* a call advanced latestIndex and requested the ancestors of its marker,
\* and the solidification worker raised the solid index after the call read it
C20_Witness ==
    \E w \in Workers :
        /\ tpc[w] = "ret"
        /\ solidWasBehind[w]
        /\ "write" \in Range(trace[w])
        /\ "request" \in Range(trace[w])
        /\ solidMsIndex[w] >= 1
        /\ solidIndex > solidMsIndex[w]

\* the events of the call that caller p is executing
EventsOf(p) ==
    {i \in 1..Len(cleanupEvents) :
        callNo[p] # 0 /\ cleanupEvents[i].call = callNo[p]}

\* the start events and the finish events among them
StartsOf(p) == {i \in EventsOf(p) : cleanupEvents[i].type = "start"}
FinishesOf(p) == {i \in EventsOf(p) : cleanupEvents[i].type = "finish"}

\* C17: every pass publishes one start event before the compaction primitive
\* and one finish event with the same start time after it, whatever the
\* primitive returned, both while the mutex is held by the caller; a full run
\* that ends cleanly and reports k counted passes has published k + 1 pairs.
C17_EventPairPerPass ==
    /\ [](\A p \in Callers :
            /\ Cardinality(StartsOf(p)) =
                    IF gpc[p] = "cleanup" THEN passes[p] + 1 ELSE passes[p]
            /\ Cardinality(FinishesOf(p)) =
                    IF gpc[p] = "finish" THEN passes[p] - 1 ELSE passes[p]
            /\ \A i \in FinishesOf(p) :
                    /\ i - 1 \in StartsOf(p)
                    /\ cleanupEvents[i - 1].start = cleanupEvents[i].start
            /\ reported[p] >= 0 =>
                    /\ Cardinality(StartsOf(p)) = reported[p] + 1
                    /\ Cardinality(FinishesOf(p)) = reported[p] + 1)
    /\ [][cleanupEvents' # cleanupEvents =>
            /\ Len(cleanupEvents') = Len(cleanupEvents) + 1
            /\ garbageCollectionLock = cleanupEvents'[Len(cleanupEvents')].by
            /\ garbageCollectionLock' = garbageCollectionLock]_vars

\* a full run ended after a pass whose primitive failed, having published a
\* start and a finish event for that pass too
C17_Witness ==
    \E p \in Callers :
        /\ kind[p] = "full"
        /\ gpc[p] = "unlock"
        /\ err[p] = ErrOther
        /\ passes[p] = 2
        /\ Cardinality(FinishesOf(p)) = 2

\* C18: a failure of the engine other than ErrNoRewrite is not retried
\* within the call: RunGarbageCollection invokes the primitive once per call
\* whatever it returns, RunFullGarbageCollection starts no pass after such a
\* failure, and the call then returns and releases the mutex, so that a
\* caller waiting for it acquires it.
C18_FailureNotRetried ==
    /\ [](\A p \in Callers :
            /\ kind[p] = "run" =>
                    /\ passes[p] <= 1
                    /\ gpc[p] \in {"finish", "ret", "unlock"} => passes[p] = 1
            /\ err[p] = ErrOther => gpc[p] \in {"finish", "check", "ret", "unlock"}
            /\ gpc[p] \in {"idle", "lock"} => garbageCollectionLock # p)
    /\ [][\A p \in Callers :
            err[p] = ErrOther =>
                /\ passes'[p] <= passes[p]
                /\ Cardinality(StartsOf(p)) = passes[p]
                /\ cleanupEvents' # cleanupEvents =>
                        cleanupEvents'[Len(cleanupEvents')].type = "finish"]_vars
    /\ \A p \in Callers :
        /\ (err[p] = ErrOther) ~> (gpc[p] = "idle" /\ garbageCollectionLock # p)
        /\ \A q \in Callers :
            (err[p] = ErrOther /\ gpc[q] = "lock") ~> (garbageCollectionLock = q)

\* a full run is about to return after its second pass failed, while another
\* caller waits for the mutex
C18_Witness ==
    \E p, q \in Callers :
        /\ kind[p] = "full"
        /\ err[p] = ErrOther
        /\ gpc[p] = "unlock"
        /\ passes[p] = 2
        /\ gpc[q] = "lock"

\* C13: on shutdown the store is marked healthy and then closed, in that
\* order; the worker takes neither step before it received the shutdown
\* signal, so the healthy flag is never set without the signal; and once the
\* signal was given the store is marked, and once marked it is closed.
C13_HealthyThenClosed ==
    /\ [](/\ closed => healthy
          /\ healthy => shutdownSignal
          /\ closeWorker \in {"signalled", "marked", "closed"} => shutdownSignal
          /\ healthy <=> closeWorker \in {"marked", "closed"}
          /\ closed <=> closeWorker = "closed")
    /\ [][/\ (healthy' /\ ~healthy) => (shutdownSignal /\ ~closed)
          /\ (closed' /\ ~closed) => healthy]_vars
    /\ shutdownSignal ~> healthy
    /\ healthy ~> closed

\* the store was marked healthy and closed after the startup run and a
\* later call had made their passes
C13_Witness ==
    /\ shutdownSignal
    /\ healthy
    /\ closed
    /\ calls = MaxCalls

\* C14: when the version found at startup is not the expected one the node
\* halts at once: the "Close database" worker is not registered, the store
\* is never marked healthy or closed by it, run is never entered and no pass,
\* the startup full run included, is executed.
C14_MismatchHalts ==
    /\ [](versionRead = "mismatch" =>
            /\ dpc = "panicked"
            /\ closeWorker = "unregistered"
            /\ ~healthy /\ ~closed /\ ~shutdownSignal
            /\ calls = 0
            /\ cleanupEvents = <<>>
            /\ \A p \in Callers : gpc[p] = "idle" /\ passes[p] = 0)
    /\ [](dpc = "panicked" <=> versionRead = "mismatch")
    /\ [][versionRead # "mismatch"]_vars

\* configure found another version than the expected one and panicked
C14_Witness ==
    /\ versionRead = "mismatch"
    /\ dpc = "panicked"

====
